---- MODULE Spec2Model ----
(***************************************************************************)
(* OSRS Grand Exchange menu bar widget (michaelsru/ge_tracker).            *)
(*                                                                         *)
(* getracker.py    OSRSGEMenuBar: the price cache, the background fetch    *)
(*                 thread, the one-off refresh threads, the 1-second UI    *)
(*                 timer and the menu                                      *)
(* item_manager.py ItemManager: the catalog maps, search, the watchlist    *)
(*                 and its persisted file                                  *)
(* settings_gui.py SettingsGUI: the settings window, a process of its own  *)
(*                 with its own ItemManager on the same file               *)
(*                                                                         *)
(* Python values are modelled as follows.                                  *)
(*   str            a TLA+ string                                          *)
(*   dict, ordered  a sequence of <<key, value>> pairs with distinct keys  *)
(*                  (insertion order is the order of the sequence)         *)
(*   price mapping  a function from id strings to records; a record holds  *)
(*                  the fields "high" and "low" that are present           *)
(*   None           the value None below                                   *)
(*                                                                         *)
(* Threads: every worker thread (the periodic loop, each one-off refresh)  *)
(* takes one step per shared-variable access or blocking call, so that     *)
(* the interleavings of the interpreter's thread switches are the          *)
(* interleavings of the actions.  The callbacks of the UI thread run one   *)
(* at a time on the run loop; ui_update_loop is split at its three         *)
(* accesses of the hand-off flag and snapshot (lines 182, 183, 184).       *)
(* The settings process takes one step per handler of its window; each     *)
(* handler reads and writes the file within the step.                      *)
(***************************************************************************)
EXTENDS Integers, Sequences, FiniteSets, TLC

VARIABLES
  \* OSRSGEMenuBar (getracker.py:39-46)
  price_data,          \* self.price_data
  last_update_str,     \* self.last_update_str
  new_data_available,  \* self.new_data_available
  _running,            \* self._running
  item_refs,           \* self.item_refs: item id -> index of its menu entry
  menu,                \* the per-item entries of self.menu, in menu order
  status_item,         \* self.status_item.title
  \* ItemManager (item_manager.py:14-24) and its file
  watchlist,           \* self.watchlist: its entries when it is a dict
  watchlist_type,      \* the Python type of self.watchlist
  name_to_id,          \* self.name_to_id
  id_to_name,          \* self.id_to_name
  config_file,         \* the file at CONFIG_FILE
  search_query,        \* <<query>> of the last call of search_item, <<>> before
  search_result,       \* what the last call of search_item returned
  last_refresh,        \* how the last call of refresh_mappings ended
  \* control state of the threads
  pc,                  \* position of each worker thread
  data,                \* the local variable `data` of each worker thread
  sleep_i,             \* iterations done of the running `for _ in range(...)`
  ui_pc,               \* position of the UI thread inside ui_update_loop
  \* history variables (not program state)
  data_by,             \* the worker that last assigned price_data
  ts_by,               \* the worker that last assigned last_update_str
  rendered,            \* the price_data that update_menu_view last read
  stop_fetches,        \* fetches the periodic loop started after _running was cleared
  stop_sleeps,         \* sleeps the periodic loop started after _running was cleared
  last_op,             \* the last operation on the watchlist: "init", "add",
                       \* "remove", "reorder" or "load"
  \* the settings window (getracker.py:210-243, settings_gui.py)
  settings_process,    \* self.settings_process and the process behind it:
                       \* "none" (no attribute), "starting" and "open"
                       \* (poll() is None), "exited" (poll() is not None)
  settings_watcher,    \* self.settings_watcher: "none", "running", "stopped"
  s_watchlist,         \* item_manager.watchlist of the settings process
  edits                \* history: the last edit of each name that either
                       \* process wrote to the file, "none" before any

vars == <<price_data, last_update_str, new_data_available, _running,
          item_refs, menu, status_item,
          watchlist, watchlist_type, name_to_id, id_to_name, config_file,
          search_query,
          search_result, last_refresh, pc, data, sleep_i, ui_pc,
          data_by, ts_by, rendered, stop_fetches, stop_sleeps, last_op,
          settings_process, settings_watcher, s_watchlist, edits>>

appVars == <<price_data, last_update_str, new_data_available, _running,
             item_refs, menu, status_item, pc, data, sleep_i, ui_pc,
             data_by, ts_by, rendered, stop_fetches, stop_sleeps>>

catalogVars ==
  <<name_to_id, id_to_name, search_query, search_result, last_refresh>>

storeVars == <<watchlist, watchlist_type, config_file, last_op>>

settingsVars == <<settings_process, settings_watcher, s_watchlist, edits>>

-----------------------------------------------------------------------------
(* Bounds of the model *)

\* one-off refresh threads that "Refresh Now" may start in one run
MaxManual == 1

\* elements of the list the catalog endpoint returns
MaxCatalog == 2

\* names in the list that save_reorder reads from the listbox
MaxOrder == 3

\* members of a JSON object found in the file at CONFIG_FILE
MaxMembers == 2

\* items of the long catalog the endpoint may return (more than the six
\* names search_item returns)
MaxShelf == 7

\* iterations of the periodic loop's sleep loop (UPDATE_INTERVAL, 300 in
\* getracker.py:22, scaled down)
UPDATE_INTERVAL == 2

-----------------------------------------------------------------------------
(* Python values *)

None == [py |-> "None"]

\* the empty dict {}
EmptyDict == <<>>

Min(a, b) == IF a < b THEN a ELSE b

\* ordered dict: a sequence of <<key, value>> pairs
DictHas(d, k) == \E i \in 1..Len(d) : d[i][1] = k

DictGet(d, k) == d[CHOOSE i \in 1..Len(d) : d[i][1] = k][2]

DictSet_MoveToEnd(d, k, v) ==
  Append(SelectSeq(d, LAMBDA e : e[1] # k), <<k, v>>)

\* d[k] = v: an existing key keeps its position, a new key is appended
DictSet(d, k, v) ==
  IF DictHas(d, k)
  THEN [i \in 1..Len(d) |-> IF d[i][1] = k THEN <<k, v>> ELSE d[i]]
  ELSE Append(d, <<k, v>>)

\* del d[k]
DictDel(d, k) == SelectSeq(d, LAMBDA e : e[1] # k)

\* price-record access item_data.get(field, 0)
Get0(rec, field) == IF field \in DOMAIN rec THEN rec[field] ELSE 0

-----------------------------------------------------------------------------
(* getracker.py: formatting *)

\* f"{price/unit:.<dec>f}" in integer arithmetic; scale = unit / 10^dec.
\* Exact for every price that is not a rounding tie (price % scale =
\* scale / 2), where the binary expansion of the float decides the digit;
\* the prices of the model are not ties.
Fixed(price, scale, dec) ==
  LET h == (price + scale \div 2) \div scale
      p == IF dec = 1 THEN 10 ELSE 100
      frac == h % p
  IN  ToString(h \div p) \o "." \o
      (IF dec = 2 /\ frac < 10 THEN "0" ELSE "") \o ToString(frac)

format_price(price) ==
  IF price >= 1000000000 THEN Fixed(price, 10000000, 2) \o "B"
  ELSE IF price >= 1000000 THEN Fixed(price, 10000, 2) \o "M"
  ELSE IF price >= 1000 THEN Fixed(price, 100, 1) \o "K"
  ELSE ToString(price)

\* datetime.now().strftime("%H:%M:%S") for a time of day t in seconds
TwoDigits(n) == (IF n < 10 THEN "0" ELSE "") \o ToString(n)

strftime(t) ==
  TwoDigits((t \div 3600) % 24) \o ":" \o TwoDigits((t \div 60) % 60) \o ":"
    \o TwoDigits(t % 60)

-----------------------------------------------------------------------------
(* getracker.py: the menu *)

\* the four titles of one watchlist entry's menu item and submenu
Usable(snapshot, key) ==
  /\ key \in DOMAIN snapshot
  /\ Get0(snapshot[key], "high") # 0
  /\ Get0(snapshot[key], "low") # 0

PriceTitles(item_name, rec) ==
  LET high == Get0(rec, "high")
      low == Get0(rec, "low")
      avg == (high + low) \div 2
  IN  [main |-> item_name \o ": " \o format_price(avg) \o " gp",
       avg |-> "Average: " \o format_price(avg) \o " gp",
       high |-> "High: " \o format_price(high) \o " gp",
       low |-> "Low: " \o format_price(low) \o " gp"]

PlaceholderTitles(item_name) ==
  [main |-> item_name \o ": ...",
   avg |-> "Average: ...", high |-> "High: ...", low |-> "Low: ..."]

\* rebuild_menu: one menu entry per watchlist entry, pre-filled from the
\* cached prices; item_refs maps an id to the entry created last for it
MenuEntry(item_name, item_id, snapshot) ==
  IF Usable(snapshot, ToString(item_id))
  THEN PriceTitles(item_name, snapshot[ToString(item_id)])
  ELSE PlaceholderTitles(item_name)

BuiltMenu(wl, snapshot) ==
  [i \in 1..Len(wl) |-> MenuEntry(wl[i][1], wl[i][2], snapshot)]

BuiltRefs(wl) ==
  [id \in {wl[i][2] : i \in 1..Len(wl)} |->
     CHOOSE i \in 1..Len(wl) :
       /\ wl[i][2] = id
       /\ \A j \in 1..Len(wl) : wl[j][2] = id => j <= i]

StatusTitle(str) == "Updated: " \o str

\* update_menu_view: the loop body for one watchlist entry
UpdateEntry(m, refs, snapshot, item_name, item_id) ==
  IF item_id \notin DOMAIN refs THEN m
  ELSE LET k == refs[item_id]
           key == ToString(item_id)
       IN  IF key \in DOMAIN snapshot
           THEN IF Usable(snapshot, key)
                THEN [m EXCEPT ![k] = PriceTitles(item_name, snapshot[key])]
                ELSE m
           ELSE [m EXCEPT ![k].main = item_name \o ": N/A"]

RECURSIVE UpdatedMenu(_, _, _, _, _)
UpdatedMenu(m, refs, snapshot, wl, i) ==
  IF i > Len(wl) THEN m
  ELSE UpdatedMenu(UpdateEntry(m, refs, snapshot, wl[i][1], wl[i][2]),
                   refs, snapshot, wl, i + 1)

-----------------------------------------------------------------------------
(* item_manager.py: the persisted watchlist *)

\* the built-in watchlist of load_config (item_manager.py:123-127)
DefaultWatchlist ==
  <<(<<"Old school bond", 13190>>), (<<"Cooked karambwan", 3144>>),
    (<<"Raw karambwan", 3142>>)>>

\* The file at CONFIG_FILE: absent, or holding a text.  A text is the JSON
\* document it parses to, or Garbage when json.load cannot parse it.  A
\* document is an object with members or another JSON value (null, an
\* array, a number, a string).
Absent == [exists |-> FALSE]

Garbage == [type |-> "garbage", members |-> <<>>]

NonObject(type) == [type |-> type, members |-> <<>>]

\* the Python type of what json.load returns for a JSON value
PyType(type) ==
  CASE type = "object" -> "dict"
    [] type = "array" -> "list"
    [] type = "null" -> "NoneType"
    [] type = "number" -> "int"
    [] type = "string" -> "str"

FileWith(text) == [exists |-> TRUE, text |-> text]

\* the decimal digits of a JSON number, read as an int
Digits == "0123456789"

DigitTable ==
  [c \in {SubSeq(Digits, i, i) : i \in 1..10} |->
     (CHOOSE i \in 1..10 : SubSeq(Digits, i, i) = c) - 1]

RECURSIVE ParseInt(_)
ParseInt(text) ==
  IF Len(text) = 0 THEN 0
  ELSE 10 * ParseInt(SubSeq(text, 1, Len(text) - 1))
         + DigitTable[SubSeq(text, Len(text), Len(text))]

json_dump_ReverseOrder(wl) ==
  [type |-> "object",
   members |-> [i \in 1..Len(wl) |->
                  <<wl[Len(wl) + 1 - i][1], ToString(wl[Len(wl) + 1 - i][2])>>]]

\* json.dump(self.watchlist, f, indent=4): an object with one member per
\* entry, in the order of the dict; a member is the key and the decimal
\* text of the id
json_dump(wl) ==
  [type |-> "object",
   members |-> [i \in 1..Len(wl) |-> <<wl[i][1], ToString(wl[i][2])>>]]

\* json.load(f): an object becomes a dict, a repeated key keeping its first
\* position and its last value, a number text becoming an int; unparseable
\* text raises
RECURSIVE DictOf(_, _, _)
DictOf(members, i, d) ==
  IF i > Len(members) THEN d
  ELSE DictOf(members, i + 1,
              DictSet(d, members[i][1], ParseInt(members[i][2])))

\* json.load(f): the type of the value returned, and its entries when it
\* is a dict
json_load(text) ==
  IF text.type = "garbage" THEN [raised |-> TRUE]
  ELSE [raised |-> FALSE, type |-> PyType(text.type),
        value |-> DictOf(text.members, 1, EmptyDict)]

\* load_config: the watchlist after the call (its entries when a dict)
load_config(file) ==
  IF ~file.exists THEN DefaultWatchlist
  ELSE LET r == json_load(file.text)
       IN  IF r.raised THEN EmptyDict ELSE r.value

\* load_config: the type of self.watchlist after the call; lines 123-127
\* and 135 assign a dict, line 132 whatever json.load returned
loaded_type(file) ==
  IF ~file.exists THEN "dict"
  ELSE LET r == json_load(file.text)
       IN  IF r.raised THEN "dict" ELSE r.type

\* self.watchlist[name] = item_id (line 102) raises a TypeError on None, a
\* list, an int and a str
add_raises(type) == type # "dict"

\* `name in self.watchlist` (line 107) raises a TypeError on None and on an
\* int; a list of numbers and a string without the name in it answer False
remove_raises(type) == type \in {"NoneType", "int"}

\* self.item_manager.watchlist.items() (getracker.py, line 74) raises an
\* AttributeError on anything but a dict
rebuild_raises(type) == type # "dict"

\* What a call of save_config meets: the file is written; open() raises
\* and the file is as it was; or open() has truncated the file and a write
\* (or the flush at close) raises, leaving a partial text.  Either
\* exception is caught and printed (lines 116-117).
DiskOutcomes == {"ok", "open_fails", "write_fails"}

\* save_config: the file after the call
save_config(wl, file, outcome) ==
  IF outcome = "ok" THEN FileWith(json_dump(wl))
  ELSE IF outcome = "open_fails" THEN file
  ELSE FileWith(Garbage)

\* save_config: whether the call raises.  What open() and json.dump raise
\* on a failing disk is an OSError, which `except Exception` (line 116)
\* catches.
save_config_raises(outcome) == FALSE

add_to_watchlist_Rollback(wl, file, name, item_id, outcome) ==
  [watchlist |-> IF outcome = "ok" THEN DictSet(wl, name, item_id) ELSE wl,
   file |-> save_config(DictSet(wl, name, item_id), file, outcome),
   raised |-> FALSE]

\* add_to_watchlist: watchlist and file after the call, and whether the
\* call raised
add_to_watchlist(wl, file, name, item_id, outcome) ==
  LET new == DictSet(wl, name, item_id)
  IN  [watchlist |-> new,
       file |-> save_config(new, file, outcome),
       raised |-> save_config_raises(outcome)]

remove_from_watchlist_AlwaysSaves(wl, file, name, outcome) ==
  [watchlist |-> DictDel(wl, name),
   file |-> save_config(DictDel(wl, name), file, outcome)]

\* remove_from_watchlist: watchlist and file after the call
remove_from_watchlist(wl, file, name, outcome) ==
  IF DictHas(wl, name)
  THEN [watchlist |-> DictDel(wl, name),
        file |-> save_config(DictDel(wl, name), file, outcome),
        raised |-> save_config_raises(outcome)]
  ELSE [watchlist |-> wl, file |-> file, raised |-> FALSE]

\* settings_gui.py, save_reorder (lines 102-114): lines 108-111, the loop
\* over the names of the listbox from name i on
RECURSIVE Reordered(_, _, _, _)
Reordered(names, i, old, new) ==
  IF i > Len(names) THEN new
  ELSE IF DictHas(old, names[i])
  THEN Reordered(names, i + 1, old, DictSet(new, names[i], DictGet(old, names[i])))
  ELSE Reordered(names, i + 1, old, new)

save_reorder_KeepsOmitted(wl, file, new_order_names, outcome) ==
  LET kept == Reordered(new_order_names, 1, wl, EmptyDict)
      all == kept \o SelectSeq(wl, LAMBDA e : ~DictHas(kept, e[1]))
  IN  [watchlist |-> all, file |-> save_config(all, file, outcome)]

\* save_reorder: watchlist and file after the call, new_order_names being
\* what the listbox holds
save_reorder(wl, file, new_order_names, outcome) ==
  LET new_watchlist == Reordered(new_order_names, 1, wl, EmptyDict)
  IN  [watchlist |-> new_watchlist,
       file |-> save_config(new_watchlist, file, outcome),
       raised |-> save_config_raises(outcome)]

-----------------------------------------------------------------------------
(* item_manager.py: strings *)

\* The characters of the model's names and queries are ASCII letters,
\* digits, spaces and punctuation.
UpperCase == "ABCDEFGHIJKLMNOPQRSTUVWXYZ"

LowerCase == "abcdefghijklmnopqrstuvwxyz"

Char(s, i) == SubSeq(s, i, i)

LowerTable ==
  [c \in {Char(UpperCase, i) : i \in 1..26} |->
     Char(LowerCase, CHOOSE i \in 1..26 : Char(UpperCase, i) = c)]

LowerChar(c) == IF c \in DOMAIN LowerTable THEN LowerTable[c] ELSE c

\* str.lower()
RECURSIVE Lower(_)
Lower(s) ==
  IF Len(s) = 0 THEN ""
  ELSE LowerChar(Char(s, 1)) \o Lower(SubSeq(s, 2, Len(s)))

\* str.strip()
RECURSIVE Strip(_)
Strip(s) ==
  IF Len(s) = 0 THEN ""
  ELSE IF Char(s, 1) = " " THEN Strip(SubSeq(s, 2, Len(s)))
  ELSE IF Char(s, Len(s)) = " " THEN Strip(SubSeq(s, 1, Len(s) - 1))
  ELSE s

\* str.split(): the maximal runs of non-space characters; cur is the run
\* being read
RECURSIVE SplitFrom(_, _, _)
SplitFrom(s, i, cur) ==
  IF i > Len(s) THEN (IF cur = "" THEN <<>> ELSE <<cur>>)
  ELSE IF Char(s, i) = " "
       THEN (IF cur = "" THEN <<>> ELSE <<cur>>) \o SplitFrom(s, i + 1, "")
       ELSE SplitFrom(s, i + 1, cur \o Char(s, i))

Split(s) == SplitFrom(s, 1, "")

\* token in name
Contains(name, token) ==
  \E i \in 1..(Len(name) - Len(token) + 1) :
    SubSeq(name, i, i + Len(token) - 1) = token

-----------------------------------------------------------------------------
(* item_manager.py: the catalog *)

\* Elements of the list the /mapping endpoint returns.  A dict holds the
\* members 'name' and 'id' that are present and not null; NotADict is any
\* element that has no .get (a string, a number, null).
NotADict == [dict |-> FALSE]

CatalogItem(name, id) == [dict |-> TRUE, name |-> name, id |-> id]

Nameless(id) == [dict |-> TRUE, id |-> id]

\* `if item_name and item_id`
Mappable(item) ==
  /\ "name" \in DOMAIN item /\ item.name # ""
  /\ "id" \in DOMAIN item /\ item.id # 0

\* lines 40-47: the loop over the parsed list, from element i on; an
\* element without .get raises AttributeError and ends the loop
RECURSIVE FillMappings(_, _, _, _)
FillMappings(items, i, n2i, i2n) ==
  IF i > Len(items)
  THEN [name_to_id |-> n2i, id_to_name |-> i2n, error |-> FALSE]
  ELSE IF ~items[i].dict
  THEN [name_to_id |-> n2i, id_to_name |-> i2n, error |-> TRUE]
  ELSE IF Mappable(items[i])
  THEN FillMappings(items, i + 1,
                    DictSet(n2i, Lower(items[i].name), items[i].id),
                    DictSet(i2n, items[i].id, items[i].name))
  ELSE FillMappings(items, i + 1, n2i, i2n)

\* refresh_mappings: the two maps after the call, and whether the except
\* branch of line 51 ran.  resp is what the GET of /mapping meets:
\* requests.get raising (transport_error), raise_for_status raising
\* (http_error), response.json() raising (parse_error), or a parsed body:
\* a list of elements, or a document that is no list (type "object": a
\* JSON object with members, whose iteration yields strings).
refresh_mappings(n2i, i2n, resp) ==
  IF resp.kind # "ok"
  THEN [name_to_id |-> n2i, id_to_name |-> i2n, error |-> TRUE]
  ELSE IF resp.body.type = "list"
  THEN FillMappings(resp.body.items, 1, EmptyDict, EmptyDict)
  ELSE [name_to_id |-> EmptyDict, id_to_name |-> EmptyDict, error |-> TRUE]

\* search_item
NoResult == [found |-> FALSE, suggestions |-> <<>>]

\* matches.sort(key=len): stable, ascending length
InsertByLen_Unsorted(sorted, name) == Append(sorted, name)

RECURSIVE InsertByLen(_, _)
InsertByLen(sorted, name) ==
  IF sorted = <<>> THEN <<name>>
  ELSE LET last == sorted[Len(sorted)]
       IN  IF Len(last) <= Len(name) THEN Append(sorted, name)
           ELSE Append(InsertByLen(SubSeq(sorted, 1, Len(sorted) - 1), name),
                       last)

RECURSIVE SortByLen(_, _, _)
SortByLen(names, i, sorted) ==
  IF i > Len(names) THEN sorted
  ELSE SortByLen(names, i + 1, InsertByLen(sorted, names[i]))

\* lines 75-86: the keys that contain all tokens, in dict order, sorted
RankedMatches(n2i, tokens) ==
  LET keys == [i \in 1..Len(n2i) |-> n2i[i][1]]
  IN  SortByLen(SelectSeq(keys, LAMBDA name :
                  \A t \in 1..Len(tokens) : Contains(name, tokens[t])),
                1, <<>>)

\* self.id_to_name[self.name_to_id[key]]
RealName(n2i, i2n, key) == DictGet(i2n, DictGet(n2i, key))

\* lines 80-98
BestOf(n2i, i2n, matches) ==
  IF matches = <<>> THEN NoResult
  ELSE [found |-> TRUE, name |-> RealName(n2i, i2n, matches[1]),
        id |-> DictGet(n2i, matches[1]),
        suggestions |->
          [k \in 1..Min(Len(matches) - 1, 5) |->
             RealName(n2i, i2n, matches[k + 1])]]

TokenSearch_NoEmptyCheck(n2i, i2n, tokens) ==
  BestOf(n2i, i2n, RankedMatches(n2i, tokens))

\* lines 70-98
TokenSearch(n2i, i2n, tokens) ==
  IF tokens = <<>> THEN NoResult
  ELSE BestOf(n2i, i2n, RankedMatches(n2i, tokens))

search_item_NoExact(n2i, i2n, query) ==
  TokenSearch(n2i, i2n, Split(Strip(Lower(query))))

search_item(n2i, i2n, query) ==
  LET query_lower == Strip(Lower(query))
  IN  IF DictHas(n2i, query_lower)
      THEN [found |-> TRUE, name |-> RealName(n2i, i2n, query_lower),
            id |-> DictGet(n2i, query_lower), suggestions |-> <<>>]
      ELSE TokenSearch(n2i, i2n, Split(query_lower))

-----------------------------------------------------------------------------
(* getracker.py: the price endpoint *)

\* mappings the /latest endpoint returns in the model
Feed1 ==
  ("13190" :> [high |-> 2000, low |-> 90])

Feed2 ==
  ("13190" :> [high |-> 2000]) @@
  ("3144" :> [high |-> 100, low |-> 90])

Feeds == {Feed1, Feed2, EmptyDict}

\* What one GET of /latest meets: requests.get raising (transport_error),
\* raise_for_status raising (http_error), response.json() raising
\* (parse_error), or a 2xx response whose JSON object has the member 'data'
\* (an object without it reads as {} through data.get('data', {})).
PriceResponses ==
  {[kind |-> k] : k \in {"transport_error", "http_error", "parse_error"}}
    \cup {[kind |-> "ok", data |-> f] : f \in Feeds}

\* fetch_prices with `except requests.RequestException` in place of
\* `except Exception`: the ValueError of response.json() leaves the function
fetch_prices_NarrowExcept(resp) ==
  IF resp.kind = "ok"
  THEN [raised |-> FALSE, value |-> resp.data]
  ELSE IF resp.kind = "parse_error"
  THEN [raised |-> TRUE]
  ELSE [raised |-> FALSE, value |-> None]

\* fetch_prices: every exception is caught, printed and turned into None
fetch_prices(resp) ==
  IF resp.kind = "ok"
  THEN [raised |-> FALSE, value |-> resp.data]
  ELSE [raised |-> FALSE, value |-> None]

\* `if data:` for what fetch_prices returns
Truthy(d) == d # None /\ DOMAIN d # {}

\* times of day datetime.now() reads in the model
Clock == {43200}

-----------------------------------------------------------------------------
(* getracker.py: the worker threads *)

\* worker 0 is background_fetch_loop, workers 1..MaxManual are the
\* one_off_refresh threads in the order refresh_callback starts them
Periodic == 0

Workers == 0..MaxManual

WritePcs == {"w_price", "w_ts", "w_flag"}

\* where a worker continues after line 174 or after a falsy `data`
AfterWrite(w) ==
  IF w = Periodic
  THEN (IF UPDATE_INTERVAL > 0 THEN "sleep_check" ELSE "top")
  ELSE "done"

\* line 169: while self._running
LoopTop ==
  /\ pc[Periodic] = "top"
  /\ pc' = [pc EXCEPT ![Periodic] = IF _running THEN "fetch" ELSE "done"]
  /\ UNCHANGED <<price_data, last_update_str, new_data_available, _running,
                 item_refs, menu, status_item, data, sleep_i, ui_pc,
                 data_by, ts_by, rendered, stop_fetches, stop_sleeps>>
  /\ UNCHANGED <<storeVars, catalogVars, settingsVars>>

\* lines 170 and 259: fetch_prices is entered and the GET is sent
FetchStart(w) ==
  /\ pc[w] = "fetch"
  /\ pc' = [pc EXCEPT ![w] = "fetching"]
  /\ stop_fetches' = IF w = Periodic /\ ~_running
                     THEN Min(stop_fetches + 1, 2) ELSE stop_fetches
  /\ UNCHANGED <<price_data, last_update_str, new_data_available, _running,
                 item_refs, menu, status_item, data, sleep_i, ui_pc,
                 data_by, ts_by, rendered, stop_sleeps>>
  /\ UNCHANGED <<storeVars, catalogVars, settingsVars>>

\* lines 170-171 and 259-260: fetch_prices returns on the response resp,
\* `if data:`; an exception leaving fetch_prices would end the thread
FetchReturnOn(w, resp) ==
  /\ pc[w] = "fetching"
  /\ LET r == fetch_prices(resp)
     IN  IF r.raised
         THEN /\ pc' = [pc EXCEPT ![w] = "raised"]
              /\ UNCHANGED data
         ELSE /\ data' = [data EXCEPT ![w] = r.value]
              /\ pc' = [pc EXCEPT ![w] = IF Truthy(r.value) THEN "w_price"
                                         ELSE AfterWrite(w)]
  /\ UNCHANGED <<price_data, last_update_str, new_data_available, _running,
                 item_refs, menu, status_item, sleep_i, ui_pc,
                 data_by, ts_by, rendered, stop_fetches, stop_sleeps>>
  /\ UNCHANGED <<storeVars, catalogVars, settingsVars>>

FetchReturn(w) == \E resp \in PriceResponses : FetchReturnOn(w, resp)

\* self.price_data.update(data) in place of the assignment
WritePrice_Merge(w) ==
  /\ pc[w] = "w_price"
  /\ price_data' = data[w] @@ price_data
  /\ data_by' = w
  /\ pc' = [pc EXCEPT ![w] = "w_ts"]
  /\ UNCHANGED <<last_update_str, new_data_available, _running,
                 item_refs, menu, status_item, data, sleep_i, ui_pc,
                 ts_by, rendered, stop_fetches, stop_sleeps>>
  /\ UNCHANGED <<storeVars, catalogVars, settingsVars>>

\* lines 172 and 261: self.price_data = data
WritePrice(w) ==
  /\ pc[w] = "w_price"
  /\ price_data' = data[w]
  /\ data_by' = w
  /\ pc' = [pc EXCEPT ![w] = "w_ts"]
  /\ UNCHANGED <<last_update_str, new_data_available, _running,
                 item_refs, menu, status_item, data, sleep_i, ui_pc,
                 ts_by, rendered, stop_fetches, stop_sleeps>>
  /\ UNCHANGED <<storeVars, catalogVars, settingsVars>>

\* lines 173 and 262: self.last_update_str = datetime.now().strftime(...)
WriteTimestamp(w) ==
  /\ pc[w] = "w_ts"
  /\ \E t \in Clock : last_update_str' = strftime(t)
  /\ ts_by' = w
  /\ pc' = [pc EXCEPT ![w] = "w_flag"]
  /\ UNCHANGED <<price_data, new_data_available, _running,
                 item_refs, menu, status_item, data, sleep_i, ui_pc,
                 data_by, rendered, stop_fetches, stop_sleeps>>
  /\ UNCHANGED <<storeVars, catalogVars, settingsVars>>

\* the worker calling update_menu_view itself after setting the flag
WriteFlag_UpdatesMenu(w) ==
  /\ pc[w] = "w_flag"
  /\ new_data_available' = TRUE
  /\ status_item' = StatusTitle(last_update_str)
  /\ menu' = UpdatedMenu(menu, item_refs, price_data, watchlist, 1)
  /\ pc' = [pc EXCEPT ![w] = AfterWrite(w)]
  /\ UNCHANGED <<price_data, last_update_str, _running,
                 item_refs, data, sleep_i, ui_pc,
                 data_by, ts_by, rendered, stop_fetches, stop_sleeps>>
  /\ UNCHANGED <<storeVars, catalogVars, settingsVars>>

\* lines 174 and 263: self.new_data_available = True
WriteFlag(w) ==
  /\ pc[w] = "w_flag"
  /\ new_data_available' = TRUE
  /\ pc' = [pc EXCEPT ![w] = AfterWrite(w)]
  /\ UNCHANGED <<price_data, last_update_str, _running,
                 item_refs, menu, status_item, data, sleep_i, ui_pc,
                 data_by, ts_by, rendered, stop_fetches, stop_sleeps>>
  /\ UNCHANGED <<storeVars, catalogVars, settingsVars>>

\* the sleep loop without line 177
SleepCheck_NoCheck ==
  /\ pc[Periodic] = "sleep_check"
  /\ pc' = [pc EXCEPT ![Periodic] = "sleeping"]
  /\ UNCHANGED <<price_data, last_update_str, new_data_available, _running,
                 item_refs, menu, status_item, data, sleep_i, ui_pc,
                 data_by, ts_by, rendered, stop_fetches, stop_sleeps>>
  /\ UNCHANGED <<storeVars, catalogVars, settingsVars>>

\* line 177: if not self._running: return
SleepCheck ==
  /\ pc[Periodic] = "sleep_check"
  /\ pc' = [pc EXCEPT ![Periodic] = IF _running THEN "sleeping" ELSE "done"]
  /\ UNCHANGED <<price_data, last_update_str, new_data_available, _running,
                 item_refs, menu, status_item, data, sleep_i, ui_pc,
                 data_by, ts_by, rendered, stop_fetches, stop_sleeps>>
  /\ UNCHANGED <<storeVars, catalogVars, settingsVars>>

\* line 178: time.sleep(1), then the next iteration of line 176 or, the
\* range exhausted, line 169
Sleep ==
  /\ pc[Periodic] = "sleeping"
  /\ sleep_i' = IF sleep_i + 1 < UPDATE_INTERVAL THEN sleep_i + 1 ELSE 0
  /\ pc' = [pc EXCEPT ![Periodic] = IF sleep_i + 1 < UPDATE_INTERVAL
                                    THEN "sleep_check" ELSE "top"]
  /\ stop_sleeps' = IF ~_running THEN Min(stop_sleeps + 1, 2) ELSE stop_sleeps
  /\ UNCHANGED <<price_data, last_update_str, new_data_available, _running,
                 item_refs, menu, status_item, data, ui_pc,
                 data_by, ts_by, rendered, stop_fetches>>
  /\ UNCHANGED <<storeVars, catalogVars, settingsVars>>

-----------------------------------------------------------------------------
(* getracker.py: the callbacks of the UI thread *)

\* The run loop delivers a callback when no other callback is running; it
\* delivers none after quit_application (line 269 ends the run loop).
UiIdle == ui_pc = "idle" /\ _running

\* line 182: the timer fires, `if self.new_data_available`
UiTick ==
  /\ UiIdle
  /\ ui_pc' = IF new_data_available THEN "view" ELSE "idle"
  /\ UNCHANGED <<price_data, last_update_str, new_data_available, _running,
                 item_refs, menu, status_item, pc, data, sleep_i,
                 data_by, ts_by, rendered, stop_fetches, stop_sleeps>>
  /\ UNCHANGED <<storeVars, catalogVars, settingsVars>>

\* line 183: update_menu_view (lines 186-208)
UiView ==
  /\ ui_pc = "view"
  /\ status_item' = StatusTitle(last_update_str)
  /\ menu' = UpdatedMenu(menu, item_refs, price_data, watchlist, 1)
  /\ rendered' = price_data
  /\ ui_pc' = "clear"
  /\ UNCHANGED <<price_data, last_update_str, new_data_available, _running,
                 item_refs, pc, data, sleep_i,
                 data_by, ts_by, stop_fetches, stop_sleeps>>
  /\ UNCHANGED <<storeVars, catalogVars, settingsVars>>

\* line 184: self.new_data_available = False
UiClear ==
  /\ ui_pc = "clear"
  /\ new_data_available' = FALSE
  /\ ui_pc' = "idle"
  /\ UNCHANGED <<price_data, last_update_str, _running,
                 item_refs, menu, status_item, pc, data, sleep_i,
                 data_by, ts_by, rendered, stop_fetches, stop_sleeps>>
  /\ UNCHANGED <<storeVars, catalogVars, settingsVars>>

\* history: the edit `what` of `name` is the last one written to the file
\* when the write succeeded
Edited(e, name, what, outcome) ==
  IF outcome = "ok" /\ name \in DOMAIN e THEN [e EXCEPT ![name] = what] ELSE e

\* remove_item_callback (lines 245-248) of the entry built for item_name:
\* remove_from_watchlist, then rebuild_menu (lines 59-137)
RemoveItemOn(i, outcome) ==
  /\ UiIdle
  /\ i \in 1..Len(watchlist)
  /\ LET r == remove_from_watchlist(watchlist, config_file,
                                    watchlist[i][1], outcome)
     IN  /\ watchlist' = r.watchlist
         /\ config_file' = r.file
         /\ menu' = BuiltMenu(r.watchlist, price_data)
         /\ item_refs' = BuiltRefs(r.watchlist)
  /\ edits' = Edited(edits, watchlist[i][1], "removed", outcome)
  /\ last_op' = "remove"
  /\ status_item' = StatusTitle(last_update_str)
  /\ UNCHANGED <<watchlist_type, settings_process, settings_watcher,
                 s_watchlist>>
  /\ UNCHANGED <<price_data, last_update_str, new_data_available, _running,
                 pc, data, sleep_i, ui_pc,
                 data_by, ts_by, rendered, stop_fetches, stop_sleeps>>
  /\ UNCHANGED catalogVars

RemoveItem ==
  \E i \in 1..Len(watchlist), outcome \in DiskOutcomes : RemoveItemOn(i, outcome)

\* refresh_callback (lines 255-264): starts a one_off_refresh thread
Refresh ==
  /\ UiIdle
  /\ \E w \in Workers \ {Periodic} :
       /\ pc[w] = "unborn"
       /\ \A v \in Workers \ {Periodic} : v < w => pc[v] # "unborn"
       /\ pc' = [pc EXCEPT ![w] = "fetch"]
  /\ UNCHANGED <<price_data, last_update_str, new_data_available, _running,
                 item_refs, menu, status_item, data, sleep_i, ui_pc,
                 data_by, ts_by, rendered, stop_fetches, stop_sleeps>>
  /\ UNCHANGED <<storeVars, catalogVars, settingsVars>>

\* quit_application (lines 266-269)
Quit ==
  /\ UiIdle
  /\ _running' = FALSE
  /\ UNCHANGED <<price_data, last_update_str, new_data_available,
                 item_refs, menu, status_item, pc, data, sleep_i, ui_pc,
                 data_by, ts_by, rendered, stop_fetches, stop_sleeps>>
  /\ UNCHANGED <<storeVars, catalogVars, settingsVars>>

-----------------------------------------------------------------------------
(* getracker.py and settings_gui.py: the settings window *)

\* names whose edits the history follows
EditNames == {"Old school bond", "Cooked karambwan", "Foo"}

\* "Settings..." was never chosen (no settings_process attribute, line 216)
NoSettings ==
  /\ settings_process = "none"
  /\ settings_watcher = "none"
  /\ s_watchlist = EmptyDict
  /\ edits = [n \in EditNames |-> "none"]

\* open_settings (lines 210-230).  With a settings process that has not
\* exited it returns at line 218.  Otherwise Popen (line 224) starts a
\* process and a new watcher timer is started (lines 227-228), also when
\* the attribute still holds a process that has exited and that no poll
\* has seen; or Popen raises, nothing is assigned and an alert is shown.
OpenSettingsOn(popen) ==
  /\ UiIdle
  /\ IF settings_process \in {"starting", "open"} \/ popen = "raises"
     THEN UNCHANGED <<settings_process, settings_watcher, s_watchlist>>
     ELSE /\ settings_process' = "starting"
          /\ settings_watcher' = "running"
          /\ s_watchlist' = EmptyDict
  /\ UNCHANGED <<edits, storeVars, catalogVars>>
  /\ UNCHANGED <<price_data, last_update_str, new_data_available, _running,
                 item_refs, menu, status_item, pc, data, sleep_i, ui_pc,
                 data_by, ts_by, rendered, stop_fetches, stop_sleeps>>

OpenSettings == \E popen \in {"ok", "raises"} : OpenSettingsOn(popen)

\* check_settings_closed (lines 232-243), the callback of the running
\* watcher timer: when the process has exited, the watcher is stopped, the
\* attribute deleted, load_config and rebuild_menu are called;
\* rebuild_menu raises at line 74, the menu cleared, on a watchlist that is
\* not a dict.  With the process alive the callback does nothing.
CheckSettingsClosed ==
  /\ UiIdle
  /\ settings_watcher = "running"
  /\ IF settings_process = "exited"
     THEN /\ settings_watcher' = "stopped"
          /\ settings_process' = "none"
          /\ watchlist' = load_config(config_file)
          /\ watchlist_type' = loaded_type(config_file)
          /\ last_op' = "load"
          /\ status_item' = StatusTitle(last_update_str)
          /\ IF rebuild_raises(watchlist_type')
             THEN menu' = <<>> /\ item_refs' = <<>>
             ELSE /\ menu' = BuiltMenu(watchlist', price_data)
                  /\ item_refs' = BuiltRefs(watchlist')
     ELSE UNCHANGED <<settings_watcher, settings_process, watchlist,
                      watchlist_type, last_op, status_item, menu, item_refs>>
  /\ UNCHANGED <<s_watchlist, edits, config_file, catalogVars>>
  /\ UNCHANGED <<price_data, last_update_str, new_data_available, _running,
                 pc, data, sleep_i, ui_pc,
                 data_by, ts_by, rendered, stop_fetches, stop_sleeps>>

\* what the settings process leaves alone: the state of the menu bar
\* application, which is another process
OtherProcess ==
  <<watchlist, watchlist_type, last_op, settings_watcher, catalogVars,
    appVars>>

\* SettingsGUI.__init__ (settings_gui.py, lines 35-93): the ItemManager of
\* the settings process loads the file (line 40).  Only the two processes
\* write the file here, so json.load returns a dict or raises.
SettingsLoad ==
  /\ settings_process = "starting"
  /\ settings_process' = "open"
  /\ s_watchlist' = load_config(config_file)
  /\ UNCHANGED <<config_file, edits, OtherProcess>>

\* add_selected (settings_gui.py, lines 153-165) on a line of the results
SettingsAddOn(name, item_id, outcome) ==
  /\ settings_process = "open"
  /\ LET r == add_to_watchlist(s_watchlist, config_file, name, item_id,
                               outcome)
     IN  s_watchlist' = r.watchlist /\ config_file' = r.file
  /\ edits' = Edited(edits, name, "added", outcome)
  /\ UNCHANGED <<settings_process, OtherProcess>>

\* remove_selected (settings_gui.py, lines 116-123) on line i of the list
SettingsRemoveOn(i, outcome) ==
  /\ settings_process = "open"
  /\ i \in 1..Len(s_watchlist)
  /\ LET r == remove_from_watchlist(s_watchlist, config_file,
                                    s_watchlist[i][1], outcome)
     IN  s_watchlist' = r.watchlist /\ config_file' = r.file
  /\ edits' = Edited(edits, s_watchlist[i][1], "removed", outcome)
  /\ UNCHANGED <<settings_process, OtherProcess>>

\* the names of the listbox after line i was dragged to line j (lines
\* 19-28); i = j is a click that moves nothing
Dragged(wl, i, j) ==
  LET rest == [k \in 1..(Len(wl) - 1) |->
                 IF k < i THEN wl[k][1] ELSE wl[k + 1][1]]
  IN  [k \in 1..Len(wl) |->
         IF k < j THEN rest[k]
         ELSE IF k = j THEN wl[i][1]
         ELSE rest[k - 1]]

\* release (lines 30-32) calls save_reorder (lines 102-114) after a drag
\* or a click in the listbox
SettingsReorderOn(i, j, outcome) ==
  /\ settings_process = "open"
  /\ i \in 1..Len(s_watchlist)
  /\ j \in 1..Len(s_watchlist)
  /\ LET r == save_reorder(s_watchlist, config_file,
                           Dragged(s_watchlist, i, j), outcome)
     IN  s_watchlist' = r.watchlist /\ config_file' = r.file
  /\ UNCHANGED <<settings_process, edits, OtherProcess>>

\* the settings window is closed, or the process ends before it has a
\* window (start_settings returns, line 175)
SettingsExit ==
  /\ settings_process \in {"starting", "open"}
  /\ settings_process' = "exited"
  /\ s_watchlist' = EmptyDict
  /\ UNCHANGED <<config_file, edits, OtherProcess>>

-----------------------------------------------------------------------------
(* The menu bar application *)

\* files the application may find at start
StartFiles ==
  {FileWith(json_dump(<<(<<"Old school bond", 13190>>),
                         (<<"Cooked karambwan", 3144>>)>>))}

\* OSRSGEMenuBar.__init__ (lines 28-57), the catalog fetch of
\* ItemManager.__init__ having failed
Init ==
  /\ config_file \in StartFiles
  /\ watchlist = load_config(config_file)
  /\ watchlist_type = loaded_type(config_file)
  /\ last_op = "init"
  /\ name_to_id = EmptyDict
  /\ id_to_name = EmptyDict
  /\ search_query = <<>>
  /\ search_result = NoResult
  /\ last_refresh = "error"
  /\ price_data = EmptyDict
  /\ last_update_str = "Never"
  /\ new_data_available = FALSE
  /\ _running = TRUE
  /\ menu = BuiltMenu(watchlist, price_data)
  /\ item_refs = BuiltRefs(watchlist)
  /\ status_item = StatusTitle(last_update_str)
  /\ pc = [w \in Workers |-> IF w = Periodic THEN "top" ELSE "unborn"]
  /\ data = [w \in Workers |-> None]
  /\ sleep_i = 0
  /\ ui_pc = "idle"
  /\ data_by = -1
  /\ ts_by = -1
  /\ rendered = EmptyDict
  /\ stop_fetches = 0
  /\ stop_sleeps = 0
  /\ NoSettings

WorkerNext ==
  \/ LoopTop
  \/ SleepCheck
  \/ Sleep
  \/ \E w \in Workers :
       FetchStart(w) \/ FetchReturn(w) \/ WritePrice(w) \/ WriteTimestamp(w)
         \/ WriteFlag(w)

UiNext == UiTick \/ UiView \/ UiClear \/ Refresh \/ Quit

\* The hand-off of price snapshots from the fetch threads to the UI thread;
\* the watchlist is not edited.
Next == WorkerNext \/ UiNext

Spec == Init /\ [][Next]_vars

\* The same with the menu's "Remove Item" entries in use.
EditNext == Next \/ RemoveItem

EditSpec == Init /\ [][EditNext]_vars

-----------------------------------------------------------------------------
(* The menu bar application and the settings window on one file *)

\* The watchlist edited from the menu and from the settings window, the
\* disk taking every write; prices are not fetched.
TrayRemove == \E i \in 1..Len(watchlist) : RemoveItemOn(i, "ok")

SettingsAdd ==
  \E a \in {<<"Foo", 1>>, <<"Old school bond", 13190>>} :
    SettingsAddOn(a[1], a[2], "ok")

SettingsRemove == \E i \in 1..Len(s_watchlist) : SettingsRemoveOn(i, "ok")

SettingsReorder ==
  \E i, j \in 1..Len(s_watchlist) : SettingsReorderOn(i, j, "ok")

SettingsNext ==
  \/ TrayRemove
  \/ OpenSettings
  \/ CheckSettingsClosed
  \/ SettingsLoad
  \/ SettingsAdd
  \/ SettingsRemove
  \/ SettingsReorder
  \/ SettingsExit

SettingsSpec == Init /\ [][SettingsNext]_vars

\* The same two processes with the periodic fetch loop and the timer of
\* ui_update_loop running; the settings window adds "Foo", which the
\* catalog lists under the id of "Old school bond".
TrayFetchReturn ==
  \E resp \in {[kind |-> "http_error"], [kind |-> "ok", data |-> Feed1]} :
    FetchReturnOn(Periodic, resp)

TrayWorker ==
  \/ LoopTop
  \/ SleepCheck
  \/ Sleep
  \/ FetchStart(Periodic)
  \/ TrayFetchReturn
  \/ WritePrice(Periodic)
  \/ WriteTimestamp(Periodic)
  \/ WriteFlag(Periodic)

SettingsAddAlias == SettingsAddOn("Foo", 13190, "ok")

TrayNext ==
  \/ TrayWorker
  \/ UiTick
  \/ UiView
  \/ UiClear
  \/ TrayRemove
  \/ OpenSettings
  \/ CheckSettingsClosed
  \/ SettingsLoad
  \/ SettingsAddAlias
  \/ SettingsExit

TraySpec == Init /\ [][TrayNext]_vars

-----------------------------------------------------------------------------
(* The item manager on its own, as the settings window uses it *)

CatalogPool ==
  {CatalogItem("Rune axe", 1), CatalogItem("Rune", 2), CatalogItem("RUNE", 3),
   CatalogItem("Axe", 1), Nameless(4), NotADict}

\* A long catalog of well-formed items with distinct ids and distinct
\* names: item 1 is "Rune s", the names of the others contain "rune s"
\* and "s", in three lengths.
ShelfName(i) ==
  IF i = 1 THEN "Rune s"
  ELSE IF i % 3 = 1 THEN "Rune s" \o ToString(i)
  ELSE IF i % 3 = 2 THEN "Rune s" \o ToString(i) \o " (or)"
  ELSE "s RUNE " \o ToString(i)

ShelfItem(i) == CatalogItem(ShelfName(i), i)

\* the long catalog listed from item r on, in ascending or descending order
ShelfFeed(r, up) ==
  [k \in 1..MaxShelf |->
     ShelfItem(IF up THEN ((r + k - 2) % MaxShelf) + 1
               ELSE ((r - k + MaxShelf) % MaxShelf) + 1)]

ShelfFeeds == {ShelfFeed(r, up) : r \in 1..MaxShelf, up \in BOOLEAN}

CatalogBodies ==
  {[type |-> "list", items |-> items] :
     items \in UNION {[1..n -> CatalogPool] : n \in 0..MaxCatalog}}
    \cup {[type |-> "object"]}

CatalogResponses ==
  {[kind |-> k] : k \in {"transport_error", "http_error", "parse_error"}}
    \cup {[kind |-> "ok", body |-> b] : b \in CatalogBodies}

Queries ==
  {"", "  ", "rune", " Rune Axe ", "axe rune", "e", "bond",
   " Rune S ", "s rune", "(or) RUNE"}

\* the menu bar application is not part of the process
NoApp ==
  /\ price_data = EmptyDict
  /\ last_update_str = "Never"
  /\ new_data_available = FALSE
  /\ _running = FALSE
  /\ menu = <<>>
  /\ item_refs = <<>>
  /\ status_item = ""
  /\ pc = [w \in Workers |-> "unborn"]
  /\ data = [w \in Workers |-> None]
  /\ sleep_i = 0
  /\ ui_pc = "idle"
  /\ data_by = -1
  /\ ts_by = -1
  /\ rendered = EmptyDict
  /\ stop_fetches = 0
  /\ stop_sleeps = 0
  /\ NoSettings

\* ItemManager.__init__ (lines 14-24)
ManagerInit ==
  /\ NoApp
  /\ config_file \in StartFiles \cup {Absent}
  /\ watchlist = load_config(config_file)
  /\ watchlist_type = loaded_type(config_file)
  /\ last_op = "init"
  /\ search_query = <<>>
  /\ search_result = NoResult
  /\ \E resp \in CatalogResponses :
       LET r == refresh_mappings(EmptyDict, EmptyDict, resp)
       IN  /\ name_to_id = r.name_to_id
           /\ id_to_name = r.id_to_name
           /\ last_refresh = IF r.error THEN "error" ELSE "ok"

\* refresh_mappings dropping the watchlist when the fetch fails
RefreshMappingsOn_DropsWatchlist(resp) ==
  /\ LET r == refresh_mappings(name_to_id, id_to_name, resp)
     IN  /\ name_to_id' = r.name_to_id
         /\ id_to_name' = r.id_to_name
         /\ last_refresh' = IF r.error THEN "error" ELSE "ok"
         /\ watchlist' = IF r.error THEN EmptyDict ELSE watchlist
  /\ UNCHANGED <<search_query, search_result, watchlist_type, config_file,
                 last_op, appVars, settingsVars>>

\* refresh_mappings (lines 26-53) meeting the response resp
RefreshMappingsOn(resp) ==
  /\ LET r == refresh_mappings(name_to_id, id_to_name, resp)
     IN  /\ name_to_id' = r.name_to_id
         /\ id_to_name' = r.id_to_name
         /\ last_refresh' = IF r.error THEN "error" ELSE "ok"
  /\ UNCHANGED <<search_query, search_result, storeVars, appVars, settingsVars>>

RefreshMappings == \E resp \in CatalogResponses : RefreshMappingsOn(resp)

\* search_item (lines 55-98) called with query
SearchItemOn(query) ==
  /\ search_query' = <<query>>
  /\ search_result' = search_item(name_to_id, id_to_name, query)
  /\ UNCHANGED <<name_to_id, id_to_name, last_refresh, storeVars, appVars, settingsVars>>

SearchItem == \E query \in Queries : SearchItemOn(query)

ManagerNext == RefreshMappings \/ SearchItem

ManagerSpec == ManagerInit /\ [][ManagerNext]_vars

\* The item manager searched in long catalogs: what the endpoint returns is
\* the long catalog in some order, a short or an empty list, or an error.
SearchResponses ==
  {[kind |-> "ok", body |-> [type |-> "list", items |-> items]] :
     items \in ShelfFeeds
                 \cup {<<>>,
                       <<CatalogItem("Rune axe", 1), CatalogItem("Rune", 2)>>,
                       <<CatalogItem("Rune", 2), CatalogItem("RUNE", 3)>>}}
    \cup {[kind |-> "http_error"]}

SearchInit ==
  /\ NoApp
  /\ config_file = Absent
  /\ watchlist = load_config(config_file)
  /\ watchlist_type = loaded_type(config_file)
  /\ last_op = "init"
  /\ search_query = <<>>
  /\ search_result = NoResult
  /\ \E resp \in SearchResponses :
       LET r == refresh_mappings(EmptyDict, EmptyDict, resp)
       IN  /\ name_to_id = r.name_to_id
           /\ id_to_name = r.id_to_name
           /\ last_refresh = IF r.error THEN "error" ELSE "ok"

RefreshLong == \E resp \in SearchResponses : RefreshMappingsOn(resp)

SearchNext == RefreshLong \/ SearchItem

SearchSpec == SearchInit /\ [][SearchNext]_vars

-----------------------------------------------------------------------------
(* The watchlist and its file, edited as the settings window edits them *)

WatchNames == {"Old school bond", "Cooked karambwan", "Foo"}

\* arguments of add_to_watchlist: new names, and names of the watchlist with
\* the id they have and with another
AddInputs ==
  {<<"Foo", 1>>, <<"Foo", 2>>, <<"Old school bond", 1>>,
   <<"Old school bond", 13190>>, <<"Cooked karambwan", 3144>>}

\* arguments of remove_from_watchlist; "Rune" is never in the watchlist
RemoveInputs == WatchNames \cup {"Rune"}

\* what save_reorder may read from the listbox
OrderInputs == UNION {[1..n -> WatchNames] : n \in 0..MaxOrder}

WatchlistInit ==
  /\ NoApp
  /\ config_file \in StartFiles
  /\ watchlist = load_config(config_file)
  /\ watchlist_type = loaded_type(config_file)
  /\ last_op = "init"
  /\ name_to_id = EmptyDict
  /\ id_to_name = EmptyDict
  /\ search_query = <<>>
  /\ search_result = NoResult
  /\ last_refresh = "error"

\* add_to_watchlist (lines 100-103)
AddToWatchlistOn(name, item_id, outcome) ==
  /\ last_op' = "add"
  /\ LET r == add_to_watchlist(watchlist, config_file, name, item_id, outcome)
     IN  watchlist' = r.watchlist /\ config_file' = r.file
  /\ UNCHANGED <<watchlist_type, catalogVars, appVars, settingsVars>>

AddToWatchlist ==
  \E a \in AddInputs, outcome \in DiskOutcomes :
    AddToWatchlistOn(a[1], a[2], outcome)

\* remove_from_watchlist (lines 105-109)
RemoveFromWatchlistOn(name, outcome) ==
  /\ last_op' = "remove"
  /\ LET r == remove_from_watchlist(watchlist, config_file, name, outcome)
     IN  watchlist' = r.watchlist /\ config_file' = r.file
  /\ UNCHANGED <<watchlist_type, catalogVars, appVars, settingsVars>>

RemoveFromWatchlist ==
  \E name \in RemoveInputs, outcome \in DiskOutcomes :
    RemoveFromWatchlistOn(name, outcome)

\* save_reorder (settings_gui.py, lines 102-114)
SaveReorderOn(names, outcome) ==
  /\ last_op' = "reorder"
  /\ LET r == save_reorder(watchlist, config_file, names, outcome)
     IN  watchlist' = r.watchlist /\ config_file' = r.file
  /\ UNCHANGED <<watchlist_type, catalogVars, appVars, settingsVars>>

SaveReorder ==
  \E names \in OrderInputs, outcome \in DiskOutcomes :
    SaveReorderOn(names, outcome)

\* load_config (lines 119-135) in a store that starts on the file
LoadConfig ==
  /\ last_op' = "load"
  /\ watchlist' = load_config(config_file)
  /\ watchlist_type' = loaded_type(config_file)
  /\ UNCHANGED <<config_file, catalogVars, appVars, settingsVars>>

WatchlistNext ==
  AddToWatchlist \/ RemoveFromWatchlist \/ SaveReorder \/ LoadConfig

WatchlistSpec == WatchlistInit /\ [][WatchlistNext]_vars

-----------------------------------------------------------------------------
(* load_config on whatever the file at CONFIG_FILE holds *)

\* members of the objects another writer may have left in the file
Members ==
  {<<"Foo", "1">>, <<"Foo", "2">>, <<"Old school bond", "13190">>}

\* What the file may hold: nothing (absent), a text that is not JSON, a
\* JSON value that is not an object, or an object of up to MaxMembers
\* members (a repeated key included).
LoadFiles ==
  {Absent}
    \cup {FileWith(Garbage)}
    \cup {FileWith(NonObject(t)) : t \in {"null", "array", "number", "string"}}
    \cup {FileWith([type |-> "object", members |-> m]) :
            m \in UNION {[1..n -> Members] : n \in 0..MaxMembers}}

LoadInit ==
  /\ NoApp
  /\ config_file \in LoadFiles
  /\ watchlist = load_config(config_file)
  /\ watchlist_type = loaded_type(config_file)
  /\ last_op = "init"
  /\ name_to_id = EmptyDict
  /\ id_to_name = EmptyDict
  /\ search_query = <<>>
  /\ search_result = NoResult
  /\ last_refresh = "error"

\* the file is replaced or deleted from outside the process (the settings
\* window runs as a process of its own, the file is the user's to edit)
ExternalWrite ==
  /\ config_file' \in LoadFiles
  /\ UNCHANGED <<watchlist, watchlist_type, last_op, catalogVars, appVars, settingsVars>>

LoadNext == ExternalWrite \/ LoadConfig

LoadSpec == LoadInit /\ [][LoadNext]_vars

-----------------------------------------------------------------------------
(* The item manager with its catalog and its watchlist both in use *)

\* what the catalog endpoint answers: an error, an empty or a short list
ManagerResponses ==
  {[kind |-> "transport_error"],
   [kind |-> "ok", body |-> [type |-> "list", items |-> <<>>]],
   [kind |-> "ok",
    body |-> [type |-> "list",
              items |-> <<CatalogItem("Rune axe", 1),
                          CatalogItem("Rune", 2)>>]]}

\* ItemManager.__init__ (lines 14-24): load_config, then refresh_mappings
\* meeting any of the answers
ItemManagerInit ==
  /\ NoApp
  /\ config_file \in StartFiles
  /\ watchlist = load_config(config_file)
  /\ watchlist_type = loaded_type(config_file)
  /\ last_op = "init"
  /\ search_query = <<>>
  /\ search_result = NoResult
  /\ \E resp \in ManagerResponses :
       LET r == refresh_mappings(EmptyDict, EmptyDict, resp)
       IN  /\ name_to_id = r.name_to_id
           /\ id_to_name = r.id_to_name
           /\ last_refresh = IF r.error THEN "error" ELSE "ok"

RefreshShort == \E resp \in ManagerResponses : RefreshMappingsOn(resp)

SearchShort == \E query \in {"rune", "bond"} : SearchItemOn(query)

\* add_selected (settings_gui.py, lines 153-165) on the line of "Rune"
AddFound ==
  \E outcome \in DiskOutcomes : AddToWatchlistOn("Rune", 2, outcome)

\* remove_selected (settings_gui.py, lines 116-123) on a line of the list
RemoveListed ==
  \E i \in 1..Len(watchlist), outcome \in DiskOutcomes :
    RemoveFromWatchlistOn(watchlist[i][1], outcome)

\* save_reorder after a drag that moved the first line to the end
ReorderListed ==
  /\ Len(watchlist) > 1
  /\ \E outcome \in DiskOutcomes :
       SaveReorderOn([i \in 1..Len(watchlist) |->
                        watchlist[(i % Len(watchlist)) + 1][1]], outcome)

ItemManagerNext ==
  RefreshShort \/ SearchShort \/ AddFound \/ RemoveListed \/ ReorderListed
    \/ LoadConfig

ItemManagerSpec == ItemManagerInit /\ [][ItemManagerNext]_vars

\* the periodic thread is scheduled and its blocking calls return (the GET
\* within its timeout of 10 s, the sleep after 1 s)
PeriodicNext ==
  \/ LoopTop
  \/ SleepCheck
  \/ Sleep
  \/ FetchStart(Periodic) \/ FetchReturn(Periodic) \/ WritePrice(Periodic)
  \/ WriteTimestamp(Periodic) \/ WriteFlag(Periodic)

FairSpec == Spec /\ WF_vars(PeriodicNext)

-----------------------------------------------------------------------------
(* Properties of the hand-off between the fetch threads and the UI thread *)

\* no worker is between the return of its fetch and the end of lines
\* 172-174 / 261-263
NoWriteInProgress == \A w \in Workers : pc[w] \notin WritePcs

\* C1: whenever new_data_available is false, no UI poll is mid-execution
\* (and no worker is part-way through its writes), the snapshot that
\* update_menu_view rendered last is the snapshot in price_data.
C1_ClearedFlagMeansRendered ==
  (~new_data_available /\ ui_pc = "idle" /\ NoWriteInProgress)
    => rendered = price_data

\* C2: once _running is cleared no worker executes any of its assignments
\* to price_data, last_update_str or new_data_available.
C2_NoWriteAfterQuit ==
  [][~_running =>
       \A w \in Workers : ~(pc[w] \in WritePcs /\ pc'[w] # pc[w])]_vars

\* C3: whenever no worker is part-way through its write sequence, the
\* timestamp in last_update_str was recorded by the fetch that produced
\* price_data.
C3_SnapshotAndTimestampAreOneUnit ==
  NoWriteInProgress => ts_by = data_by

\* C4: a fetch that fails (transport error, non-2xx status, parse failure)
\* raises nothing out of fetch_prices, and the worker goes on without
\* executing its assignments: price_data, last_update_str and
\* new_data_available are left as they were.
FailedResponses == {r \in PriceResponses : r.kind # "ok"}

C5_SuccessfulFetchIsWritten ==
  [][\A w \in Workers, f \in Feeds :
       FetchReturnOn(w, [kind |-> "ok", data |-> f]) => pc'[w] = "w_price"]_vars

\* C6: once the fetches have finished, price_data is the whole result of
\* the fetch whose assignment to price_data came last (the last writer's
\* `data`, when its latest fetch is the one that wrote), and price_data is
\* never a mixture of two results.
Finished(w) == pc[w] \notin {"fetch", "fetching"} \cup WritePcs

C6_LastWriterWins ==
  /\ price_data \in Feeds
  /\ ((\A w \in Workers : Finished(w)) /\ data_by \in Workers
        /\ Truthy(data[data_by]))
       => price_data = data[data_by]

\* a periodic and a manual fetch overlapped: the manual thread wrote its
\* timestamp after the periodic thread wrote the snapshot, both are done
C6_Witness ==
  /\ \A w \in Workers : Finished(w)
  /\ pc[1] = "done"
  /\ data_by = Periodic
  /\ ts_by = 1
  /\ data[Periodic] = Feed1
  /\ data[1] = Feed2
  /\ price_data = Feed1

\* C7: a step of a worker thread changes nothing but price_data,
\* last_update_str, new_data_available and the worker's own control state;
\* the menu entries, item_refs and the status title change only in steps of
\* the UI thread.
WorkerStep(w) == pc[w] # "unborn" /\ pc'[w] # pc[w]

C7_WorkersNeverTouchTheMenu ==
  [][(\E w \in Workers : WorkerStep(w)) =>
       UNCHANGED <<menu, item_refs, status_item, watchlist, config_file,
                   _running, ui_pc, name_to_id, id_to_name>>]_vars

\* a worker has published a snapshot and the menu still shows what the UI
\* thread put there
C7_Witness ==
  /\ pc[Periodic] = "sleep_check"
  /\ price_data = Feed1
  /\ new_data_available
  /\ Len(menu) = 2
  /\ menu[1].main = "Old school bond: ..."
  /\ status_item = "Updated: Never"

C9_UnusableEntryShowsNA ==
  ui_pc = "clear" =>
    \A i \in 1..Len(watchlist) :
      (watchlist[i][2] \in DOMAIN item_refs
         /\ ~Usable(rendered, ToString(watchlist[i][2])))
        => menu[item_refs[watchlist[i][2]]].main = watchlist[i][1] \o ": N/A"

-----------------------------------------------------------------------------
(* Properties of the catalog *)

\* C10: a call of refresh_mappings that fails after a successful one,
\* wherever in the call the error is raised, leaves name_to_id and
\* id_to_name as they were, and search_item still resolves every name that
\* was known.
FailingCatalogResponses ==
  {resp \in CatalogResponses :
     refresh_mappings(EmptyDict, EmptyDict, resp).error}

C10_FailedRefreshKeepsCatalog ==
  [][\A resp \in FailingCatalogResponses :
       (last_refresh = "ok" /\ RefreshMappingsOn(resp)) =>
         /\ name_to_id' = name_to_id
         /\ id_to_name' = id_to_name
         /\ \A i \in 1..Len(name_to_id) :
              LET r == search_item(name_to_id', id_to_name', name_to_id[i][1])
              IN  r.found /\ r.id = name_to_id[i][2]]_vars

\* C11: after every successful refresh_mappings, whatever list the endpoint
\* returned, the two maps are inverse to each other up to lowercasing: each
\* key k of name_to_id is the lowercased display name of the id it maps to,
\* and each id i of id_to_name is what its lowercased display name maps to.
C11_MapsAreInverse ==
  last_refresh = "ok" =>
    /\ \A n \in 1..Len(name_to_id) :
         Lower(DictGet(id_to_name, name_to_id[n][2])) = name_to_id[n][1]
    /\ \A i \in 1..Len(id_to_name) :
         DictGet(name_to_id, Lower(id_to_name[i][2])) = id_to_name[i][1]

-----------------------------------------------------------------------------
(* Properties of search_item *)

\* the query as search_item compares it
Normalized(query) == Strip(Lower(query))

\* the indices of the keys of name_to_id that contain every token of query
Matching(query) ==
  LET tokens == Split(Normalized(query))
  IN  {n \in 1..Len(name_to_id) :
         \A t \in 1..Len(tokens) : Contains(name_to_id[n][1], tokens[t])}

\* C12: search_item on a query that, trimmed and lowercased, is a catalog
\* name returns that name's id and the display name of that id as the best
\* match, with no suggestions, however many other names contain the query.
C12_ExactMatchIsSole ==
  [][\A query \in Queries :
       (SearchItemOn(query) /\ DictHas(name_to_id, Normalized(query))) =>
         search_result' =
           [found |-> TRUE,
            name |-> DictGet(id_to_name, DictGet(name_to_id, Normalized(query))),
            id |-> DictGet(name_to_id, Normalized(query)),
            suggestions |-> <<>>]]_vars

\* " Rune S " was searched in the long catalog, where every name contains
\* "rune s": the item named "Rune s" is returned alone
C12_Witness ==
  /\ search_query = <<" Rune S ">>
  /\ Len(name_to_id) >= 7
  /\ Cardinality(Matching(search_query[1])) = Len(name_to_id)
  /\ search_result = [found |-> TRUE, name |-> "Rune s", id |-> 1,
                      suggestions |-> <<>>]

\* C13: for a query that is no catalog name, the matches are the catalog
\* names containing every token; they are ranked by ascending length, names
\* of one length in catalog order; the best match is the first of the
\* ranking and the suggestions are the second to sixth, in that order.
Before(a, b) ==
  \/ Len(name_to_id[a][1]) < Len(name_to_id[b][1])
  \/ Len(name_to_id[a][1]) = Len(name_to_id[b][1]) /\ a < b

\* the member of the set M of indices of name_to_id that has rank r
\* (r = 1 is the best)
Ranked(M, r) ==
  CHOOSE a \in M : Cardinality({b \in M : Before(b, a)}) = r - 1

DisplayName(n) == DictGet(id_to_name, name_to_id[n][2])

C13_TokenMatchesAreRanked ==
  [][\A query \in Queries :
       LET M == Matching(query)
       IN  (/\ SearchItemOn(query)
            /\ ~DictHas(name_to_id, Normalized(query))
            /\ Split(Normalized(query)) # <<>>
            /\ M # {}) =>
             /\ search_result'.found
             /\ search_result'.id = name_to_id[Ranked(M, 1)][2]
             /\ search_result'.name = DisplayName(Ranked(M, 1))
             /\ Len(search_result'.suggestions) = Min(Cardinality(M) - 1, 5)
             /\ \A k \in 1..Len(search_result'.suggestions) :
                  /\ search_result'.suggestions[k] = DisplayName(Ranked(M, k + 1))
                  /\ Ranked(M, k + 1) # Ranked(M, 1)]_vars

\* "s rune" was searched in the long catalog listed from item 4 downwards:
\* all seven names match; the shortest comes first, names of one length in
\* the order of the catalog, and the seventh match is not returned
C13_Witness ==
  /\ search_query = <<"s rune">>
  /\ [n \in 1..Len(name_to_id) |-> name_to_id[n][2]] = <<4, 3, 2, 1, 7, 6, 5>>
  /\ search_result =
       [found |-> TRUE, name |-> "Rune s", id |-> 1,
        suggestions |-> <<"Rune s4", "Rune s7", "s RUNE 3", "s RUNE 6",
                          "Rune s2 (or)">>]

\* C14: search_item returns no best match and no suggestions for a query
\* that is empty or only whitespace, and for a query whose tokens no
\* catalog name contains all of, whatever the catalog holds.
C14_NoMatchIsEmptyResult ==
  [][\A query \in Queries :
       (/\ SearchItemOn(query)
        /\ \/ Split(Normalized(query)) = <<>>
           \/ Matching(query) = {}) =>
         search_result' = NoResult]_vars

\* a whitespace-only query was searched in the long catalog and answered
\* with the empty result; "bond", which no name of that catalog contains,
\* is answered the same
C14_Witness ==
  /\ search_query = <<"  ">>
  /\ Len(name_to_id) >= 7
  /\ search_result = NoResult
  /\ Matching("bond") = {}
  /\ search_item(name_to_id, id_to_name, "bond") = NoResult

-----------------------------------------------------------------------------
(* Properties of the watchlist and its file *)

\* the entries of wl other than the one of name, in their order
Others(wl, name) == SelectSeq(wl, LAMBDA e : e[1] # name)

\* the position of name in wl, 0 when it has no entry
PositionOf(wl, name) ==
  IF DictHas(wl, name) THEN CHOOSE i \in 1..Len(wl) : wl[i][1] = name ELSE 0

UniqueNames(wl) ==
  \A i, j \in 1..Len(wl) : wl[i][1] = wl[j][1] => i = j

\* new is old after `old[name] = item_id`
AddedTo(old, new, name, item_id) ==
  /\ DictHas(new, name) /\ DictGet(new, name) = item_id
  /\ Others(new, name) = Others(old, name)
  /\ PositionOf(new, name) =
       (IF DictHas(old, name) THEN PositionOf(old, name) ELSE Len(old) + 1)
  /\ UniqueNames(new)

\* C15 as stated: add_to_watchlist appends a new name at the end, overwrites
\* the id of an existing name in place, leaves the other entries and their
\* order alone, never makes two entries of one name, and when it returns
\* the file holds the new watchlist.
C15_AddRewritesFile ==
  [][\A a \in AddInputs, outcome \in DiskOutcomes :
       AddToWatchlistOn(a[1], a[2], outcome) =>
         /\ AddedTo(watchlist, watchlist', a[1], a[2])
         /\ config_file' = FileWith(json_dump(watchlist'))]_vars

\* C15, amended: the same for the watchlist in memory; save_config runs
\* before the call returns, and the file holds the new watchlist when the
\* write succeeds; when open() fails the file is as it was, when a write
\* fails it is left partial, and the change in memory is kept either way.
C15_AddKeepsOrderAndSaves ==
  /\ [][\A a \in AddInputs, outcome \in DiskOutcomes :
          AddToWatchlistOn(a[1], a[2], outcome) =>
            /\ AddedTo(watchlist, watchlist', a[1], a[2])
            /\ outcome = "ok" => config_file' = FileWith(json_dump(watchlist'))
            /\ outcome = "open_fails" => config_file' = config_file
            /\ outcome = "write_fails" => config_file' = FileWith(Garbage)]_vars
  /\ []UniqueNames(watchlist)

\* "Old school bond" was given the id 1 in place and saved; then "Foo" was
\* appended while the file could not be opened: the watchlist holds both
\* changes, the file the first only
C15_Witness ==
  /\ last_op = "add"
  /\ watchlist = <<(<<"Old school bond", 1>>), (<<"Cooked karambwan", 3144>>),
                   (<<"Foo", 2>>)>>
  /\ config_file = FileWith(json_dump(<<(<<"Old school bond", 1>>),
                                        (<<"Cooked karambwan", 3144>>)>>))

\* C16: remove_from_watchlist with a name that has no entry changes neither
\* the watchlist nor the file, whatever the disk would do; with a name that
\* has an entry it deletes that entry, keeps the others in their order, and
\* runs save_config on the result.
C16_RemoveOnlyWhenPresent ==
  [][\A name \in RemoveInputs, outcome \in DiskOutcomes :
       RemoveFromWatchlistOn(name, outcome) =>
         IF DictHas(watchlist, name)
         THEN /\ ~DictHas(watchlist', name)
              /\ Len(watchlist') = Len(watchlist) - 1
              /\ watchlist' = Others(watchlist, name)
              /\ config_file' = save_config(watchlist', config_file, outcome)
              /\ outcome = "ok" => config_file' = FileWith(json_dump(watchlist'))
         ELSE /\ watchlist' = watchlist
              /\ config_file' = config_file]_vars

\* "Cooked karambwan" was removed from the watchlist of the start and the
\* file rewritten
C16_Witness ==
  /\ last_op = "remove"
  /\ watchlist = <<(<<"Old school bond", 13190>>)>>
  /\ config_file = FileWith(json_dump(watchlist))

\* the members of seq, each once, in the order of their first occurrence
RECURSIVE FirstOccurrences(_)
FirstOccurrences(seq) ==
  IF seq = <<>> THEN <<>>
  ELSE LET front == SubSeq(seq, 1, Len(seq) - 1)
           last == seq[Len(seq)]
       IN  IF \E i \in 1..Len(front) : front[i] = last
           THEN FirstOccurrences(front)
           ELSE Append(FirstOccurrences(front), last)

\* C17: save_reorder, called in any state the watchlist and its file get
\* into with any list of names, makes the watchlist hold exactly the listed
\* names that had an entry, in the listed order, each with the id it had;
\* the names that are not listed lose their entry; and save_config runs on
\* the result.
C17_ReorderKeepsListedNames ==
  \A names \in OrderInputs :
    LET ok == save_reorder(watchlist, config_file, names, "ok")
        new == ok.watchlist
    IN  /\ [i \in 1..Len(new) |-> new[i][1]] =
             FirstOccurrences(
               SelectSeq(names, LAMBDA name : DictHas(watchlist, name)))
        /\ \A i \in 1..Len(new) : new[i][2] = DictGet(watchlist, new[i][1])
        /\ \A i \in 1..Len(watchlist) :
             (\A k \in 1..Len(names) : names[k] # watchlist[i][1])
               => ~DictHas(new, watchlist[i][1])
        /\ ok.file = FileWith(json_dump(new))
        /\ \A outcome \in DiskOutcomes \ {"ok"} :
             LET r == save_reorder(watchlist, config_file, names, outcome)
             IN  /\ r.watchlist = new
                 /\ r.file = save_config(new, config_file, outcome)

\* the watchlist was Old school bond, Cooked karambwan, Foo and the list
\* read was Foo, Old school bond: Cooked karambwan is dropped
C17_Witness ==
  /\ last_op = "reorder"
  /\ watchlist = <<(<<"Foo", 1>>), (<<"Old school bond", 13190>>)>>
  /\ config_file = FileWith(json_dump(watchlist))

\* C18: every watchlist that add, remove, reorder and load produce, once
\* saved successfully, is loaded back by a store that starts on the file
\* with the same names, the same ids and the same order.
C18_SaveThenLoadIsIdentity ==
  load_config(save_config(watchlist, config_file, "ok")) = watchlist

\* "Foo" was added, the list reordered to Foo, Old school bond, the id of
\* Old school bond overwritten, and a store started on the file: it holds
\* the two entries in that order
C18_Witness ==
  /\ last_op = "load"
  /\ watchlist = <<(<<"Foo", 2>>), (<<"Old school bond", 1>>)>>
  /\ config_file = FileWith(json_dump(watchlist))

\* C19: load_config on a file that is absent, or whose content is not the
\* JSON object of a watchlist, leaves the built-in default list in
\* self.watchlist.
C19_AbsentOrCorruptGivesDefaults ==
  [][LoadConfig =>
       ((~config_file.exists \/ config_file.text.type # "object") =>
          /\ watchlist' = DefaultWatchlist
          /\ watchlist_type' = "dict")]_vars

\* C20: load_config on a file that exists with malformed content leaves an
\* empty dict in self.watchlist; on an absent file it leaves the defaults
\* and does not create the file.
C20_MalformedGivesEmpty ==
  [][LoadConfig =>
       /\ ~config_file.exists =>
            /\ watchlist' = DefaultWatchlist
            /\ watchlist_type' = "dict"
            /\ config_file' = Absent
       /\ (config_file.exists /\ config_file.text.type # "object") =>
            /\ watchlist' = EmptyDict
            /\ watchlist_type' = "dict"]_vars

\* C21: when the write of the file fails (open() or a write raising) in
\* add_to_watchlist, remove_from_watchlist or save_reorder (after any drag
\* of a line of the list), called in any state the watchlist and its file
\* get into, the call does not raise and the watchlist in memory is the
\* changed one, as if the write had succeeded.
FailingOutcomes == DiskOutcomes \ {"ok"}

C21_FailedSaveKeepsMutation ==
  \A outcome \in FailingOutcomes :
    /\ \A a \in AddInputs :
         LET r == add_to_watchlist(watchlist, config_file, a[1], a[2], outcome)
         IN  /\ ~r.raised
             /\ AddedTo(watchlist, r.watchlist, a[1], a[2])
    /\ \A name \in RemoveInputs :
         LET r == remove_from_watchlist(watchlist, config_file, name, outcome)
         IN  /\ ~r.raised
             /\ r.watchlist = Others(watchlist, name)
    /\ \A i, j \in 1..Len(watchlist) :
         LET names == Dragged(watchlist, i, j)
             r == save_reorder(watchlist, config_file, names, outcome)
         IN  /\ ~r.raised
             /\ Len(r.watchlist) = Len(names)
             /\ \A k \in 1..Len(names) :
                  /\ r.watchlist[k][1] = names[k]
                  /\ r.watchlist[k][2] = DictGet(watchlist, names[k])

\* "Foo" was added and the list reordered to Foo, Old school bond while the
\* write failed part-way: the watchlist holds the new order, the file a
\* partial text
C21_Witness ==
  /\ last_op = "reorder"
  /\ watchlist = <<(<<"Foo", 1>>), (<<"Old school bond", 13190>>)>>
  /\ config_file = FileWith(Garbage)

\* C26: whatever the file holds (nothing, a JSON object, text that is not
\* JSON, or a JSON value that is not an object), self.watchlist is a dict
\* once load_config has returned, at construction and at every later call,
\* so that add_to_watchlist, remove_from_watchlist and rebuild_menu do not
\* raise on it.
C26_LoadedWatchlistIsMapping ==
  last_op \in {"init", "load"} =>
    /\ watchlist_type = "dict"
    /\ ~add_raises(watchlist_type)
    /\ ~remove_raises(watchlist_type)
    /\ ~rebuild_raises(watchlist_type)

\* C23: refresh_mappings, whether the fetch succeeds or fails, and
\* search_item leave self.watchlist and the file as they are; add, remove,
\* reorder and load_config leave name_to_id and id_to_name as they are; and
\* until the first watchlist operation the watchlist is what load_config
\* gives for the file, whether the catalog fetch of __init__ succeeded or
\* not.
CatalogOp == RefreshShort \/ SearchShort

WatchlistOp == AddFound \/ RemoveListed \/ ReorderListed \/ LoadConfig

C23_WatchlistAndCatalogIndependent ==
  /\ [](last_op = "init" =>
          /\ watchlist = load_config(config_file)
          /\ watchlist_type = loaded_type(config_file))
  /\ [][CatalogOp => UNCHANGED <<watchlist, watchlist_type, config_file>>]_vars
  /\ [][WatchlistOp => UNCHANGED <<name_to_id, id_to_name>>]_vars

\* the catalog was loaded and searched, "Rune" was added to the watchlist
\* and written, and a later refresh failed
C23_Witness ==
  /\ last_op = "add"
  /\ last_refresh = "error"
  /\ DictHas(name_to_id, "rune")
  /\ search_query = <<"rune">>
  /\ DictHas(watchlist, "Rune")
  /\ config_file = FileWith(json_dump(watchlist))

\* C22: a settings process that has exited is next followed, for the main
\* application, by the poll that sees it: the exited process is not
\* replaced or forgotten in any other way.  That poll stops the watcher,
\* leaves in self.watchlist what load_config gives for the file and in the
\* menu and item_refs what rebuild_menu builds from it; no watcher runs
\* without a process to watch, so the reload is done once.
ReloadStep ==
  /\ settings_process' = "none"
  /\ settings_watcher' = "stopped"
  /\ watchlist' = load_config(config_file)
  /\ config_file' = config_file
  /\ item_refs' = BuiltRefs(watchlist')
  /\ menu' = BuiltMenu(watchlist', price_data)

C22_ExitIsFollowedByOneReload ==
  /\ [](settings_process = "exited" => settings_watcher = "running")
  /\ [](settings_process = "none" => settings_watcher # "running")
  /\ [][settings_process = "exited" =>
          (settings_process' = "exited" \/ ReloadStep)]_vars
  /\ [][(settings_process = "exited" /\ CheckSettingsClosed) =>
          ReloadStep]_vars

\* C24: when the settings process has closed and the main application has
\* reloaded, the watchlist holds every name whose last written edit, by
\* either process, was an add and no name whose last written edit was a
\* removal.
C24_NoEditIsLost ==
  (settings_process = "none" /\ last_op = "load") =>
    \A n \in EditNames :
      /\ edits[n] = "added" => DictHas(watchlist, n)
      /\ edits[n] = "removed" => ~DictHas(watchlist, n)

\* C25: whenever the timer of ui_update_loop may fire, item_refs has an
\* entry for the id of each entry of the watchlist, and the entry of
\* item_refs refers to the labels built for that entry of the watchlist
\* and for no other.
C25_EveryEntryHasItsOwnRefs ==
  UiIdle =>
    \A i \in 1..Len(watchlist) :
      /\ watchlist[i][2] \in DOMAIN item_refs
      /\ item_refs[watchlist[i][2]] = i

====
